---- MODULE Spec2Model ----
(***************************************************************************)
(* A model of the lending ledger of ledger-beacon-insights: the record     *)
(* store of the useFinanceData hook (loans, collections, funds), the form   *)
(* handlers that call it, and the ledger built by FundTracker.              *)
(*                                                                         *)
(* Every handler runs to completion inside one React event: the state       *)
(* setters it calls are batched into one re-render, and every value the     *)
(* handler reads from its closure (loans, collections, funds) is the value  *)
(* of the render before the event.  An action below is therefore one event: *)
(* unprimed variables are the closure, primed variables the next render.    *)
(***************************************************************************)
EXTENDS Integers, Sequences, FiniteSets, TLC

\* ------------------------------------------------------------------ bounds
MaxLoans == 1
MaxCollections == 2
MaxFunds == 2

LoanIds == {"L1", "L2"}
\* Amounts of money typed into the forms.
Amounts == {1, 2}
Deductions == {0, 1}
\* Calendar dates, as day numbers.
Dates == {1, 2}
OneDay == {1}

VARIABLES loans, collections, funds, last

vars == <<loans, collections, funds, last>>

\* ----------------------------------------------------------------- helpers
Max(a, b) == IF a >= b THEN a ELSE b

\* collections.filter(c => c.loanId === id).reduce((sum, c) => sum + (c.amountPaid || 0), 0)
RECURSIVE SumPaid(_, _)
SumPaid(cs, id) ==
    IF cs = <<>> THEN 0
    ELSE (IF Head(cs).loanId = id THEN Head(cs).amountPaid ELSE 0) + SumPaid(Tail(cs), id)

\* loans.find(l => l.id === id): the index of the first loan with that id, 0 if none.
FindLoan(ls, id) ==
    IF \E i \in 1..Len(ls) : ls[i].id = id
    THEN CHOOSE i \in 1..Len(ls) : ls[i].id = id /\ \A j \in 1..(i - 1) : ls[j].id # id
    ELSE 0

\* { ...rec, ...updates }
Spread(rec, updates) == updates @@ rec

\* ------------------------------------------------- Loan Metrics Calculator
\* A calculator that leaves the balance unclamped (balance = loanAmount - collected).
calculateLoanMetricsUnclamped(loan, cs) ==
    LET collected == SumPaid(cs, loan.id)
        balance   == loan.loanAmount - collected
        status    == IF loan.isDisabled THEN "Disabled"
                     ELSE IF balance <= 0 THEN "Completed" ELSE "Ongoing"
    IN  Spread(loan, [totalToReceive |-> loan.loanAmount, collected |-> collected,
                      balance |-> balance, status |-> status,
                      profit |-> loan.deduction + (loan.loanAmount - loan.netGiven)])

\* A calculator that derives the status from the balance alone.
calculateLoanMetricsNoDisabled(loan, cs) ==
    LET collected == SumPaid(cs, loan.id)
        balance   == Max(0, loan.loanAmount - collected)
        status    == IF balance <= 0 THEN "Completed" ELSE "Ongoing"
    IN  Spread(loan, [totalToReceive |-> loan.loanAmount, collected |-> collected,
                      balance |-> balance, status |-> status,
                      profit |-> loan.deduction + (loan.loanAmount - loan.netGiven)])

\* A calculator that adds the expected profit to the loan amount it returns.
calculateLoanMetricsCompounding(loan, cs) ==
    LET collected == SumPaid(cs, loan.id)
        total == loan.loanAmount + loan.deduction
        balance == Max(0, total - collected)
    IN  Spread(loan,
               [loanAmount |-> total, totalToReceive |-> total,
                collected |-> collected, balance |-> balance,
                status |-> IF loan.isDisabled THEN "Disabled"
                           ELSE IF balance <= 0 THEN "Completed" ELSE "Ongoing",
                profit |-> loan.deduction + (total - loan.netGiven)])

\* calculateLoanMetrics(loan), with cs the `collections` of the closure it runs in.
calculateLoanMetrics(loan, cs) ==
    LET collected == SumPaid(cs, loan.id)
        balance   == Max(0, loan.loanAmount - collected)
        status    == IF loan.isDisabled THEN "Disabled"
                     ELSE IF balance <= 0 THEN "Completed" ELSE "Ongoing"
        expectedTotalProfit == loan.deduction + (loan.loanAmount - loan.netGiven)
    IN  Spread(loan, [totalToReceive |-> loan.loanAmount, collected |-> collected,
                      balance |-> balance, status |-> status,
                      profit |-> expectedTotalProfit])

\* ------------------------------------------------------- hook: store updates
\* Each operator gives the next value of one record set after one hook
\* operation; ls, cs, fs are the loans, collections and funds of the closure
\* the operation runs in.

\* addLoan: setLoans(prev => [...prev, calculateLoanMetrics(loanData)])
addLoan(ls, cs, loanData) == Append(ls, calculateLoanMetrics(loanData, cs))

\* An updateLoan that derives the loan first and merges the updates after.
updateLoanMergeLast(ls, cs, loanId, updates) ==
    [i \in 1..Len(ls) |->
        IF ls[i].id = loanId THEN Spread(calculateLoanMetrics(ls[i], cs), updates)
        ELSE ls[i]]

\* updateLoan: the loans with that id become calculateLoanMetrics({...loan, ...updates})
updateLoan(ls, cs, loanId, updates) ==
    [i \in 1..Len(ls) |->
        IF ls[i].id = loanId THEN calculateLoanMetrics(Spread(ls[i], updates), cs)
        ELSE ls[i]]

\* deleteLoan: setLoans(prev => prev.filter(loan => loan.id !== loanId))
deleteLoanLoans(ls, loanId) == SelectSeq(ls, LAMBDA l : l.id # loanId)

\* A deleteLoan that leaves the collections alone.
deleteLoanKeepsCollections(cs, loanId) == cs

\* deleteLoan: setCollections(prev => prev.filter(c => c.loanId !== loanId))
deleteLoanCollections(cs, loanId) == SelectSeq(cs, LAMBDA c : c.loanId # loanId)

\* toggleLoanStatus
toggleLoanStatus(ls, cs, loanId) ==
    [i \in 1..Len(ls) |->
        IF ls[i].id = loanId
        THEN calculateLoanMetrics(Spread(ls[i], [isDisabled |-> ~ls[i].isDisabled]), cs)
        ELSE ls[i]]

\* addCollection: setCollections(prev => [...prev, collectionData])
addCollectionCollections(cs, collectionData) == Append(cs, collectionData)

\* An addCollection that derives the loan from no collections at all.
addCollectionLoansFromNone(ls, cs, collectionData) ==
    [i \in 1..Len(ls) |->
        IF ls[i].id = collectionData.loanId THEN calculateLoanMetrics(ls[i], <<>>)
        ELSE ls[i]]

\* An addCollection that takes the amount paid off the loan's loanAmount
\* instead of re-deriving the loan.
addCollectionLoansDirect(ls, cs, collectionData) ==
    [i \in 1..Len(ls) |->
        IF ls[i].id = collectionData.loanId
        THEN calculateLoanMetrics(
                 Spread(ls[i], [loanAmount |-> ls[i].loanAmount
                                               - collectionData.amountPaid]), cs)
        ELSE ls[i]]

\* addCollection: setLoans recomputes the loan with calculateLoanMetrics, which
\* reads `collections` of its closure: the collections of the render before
\* the event, without collectionData.
addCollectionLoans(ls, cs, collectionData) ==
    [i \in 1..Len(ls) |->
        IF ls[i].id = collectionData.loanId THEN calculateLoanMetrics(ls[i], cs)
        ELSE ls[i]]

\* addBulkCollection: the collections it hands to addCollection: none when it
\* returns early (no such loan, or nothing left to collect), else one.
addBulkCollection(ls, loanId, today) ==
    LET i == FindLoan(ls, loanId)
    IN  IF i = 0 THEN <<>>
        ELSE IF ls[i].balance <= 0 THEN <<>>
        ELSE <<[date |-> today, loanId |-> loanId, amountPaid |-> ls[i].balance]>>

\* Insertion of x into a sequence sorted by date, after every element whose
\* date is <= x.date.
InsertByDate(s, x) ==
    LET k == Cardinality({i \in 1..Len(s) : s[i].date <= x.date})
    IN  SubSeq(s, 1, k) \o <<x>> \o SubSeq(s, k + 1, Len(s))

\* [...].sort((a, b) => new Date(a.date).getTime() - new Date(b.date).getTime()):
\* Array.prototype.sort is stable, so equal dates keep their array order.
RECURSIVE SortByDate(_)
SortByDate(s) ==
    IF s = <<>> THEN <<>>
    ELSE InsertByDate(SortByDate(SubSeq(s, 1, Len(s) - 1)), s[Len(s)])

RECURSIVE RunningBalance(_, _)
RunningBalance(fs, acc) ==
    IF fs = <<>> THEN <<>>
    ELSE LET b == acc + Head(fs).inflow - Head(fs).outflow
         IN  <<Spread(Head(fs), [balance |-> b])>> \o RunningBalance(Tail(fs), b)

\* An addFund that appends and recomputes the balances without sorting.
addFundUnsorted(fs, fundData) ==
    RunningBalance(Append(fs, Spread(fundData, [balance |-> 0])), 0)

\* addFund: append with balance 0, sort by date, recompute every stored balance.
addFund(fs, fundData) ==
    RunningBalance(SortByDate(Append(fs, Spread(fundData, [balance |-> 0]))), 0)

\* ------------------------------------------------------------ Ledger Builder
\* FundTracker.transactionHistory.  A row's datetime is counted in hours:
\* new Date(date) is midnight of the day; loans get +1 hour, collections +2.
HoursPerDay == 24

\* Fund rows, in the order of `funds`; balance is the fund's stored balance.
\* A fund's id (`manual-${Date.now()}-...`, `initial-${Date.now()}`) is unique
\* and always truthy; its place in `funds` stands for it.
FundRows(fs) ==
    [i \in 1..Len(fs) |->
        [id |-> <<"fund", i>>, date |-> fs[i].date,
         datetime |-> fs[i].date * HoursPerDay,
         inflow |-> fs[i].inflow, outflow |-> fs[i].outflow, balance |-> fs[i].balance,
         type |-> IF fs[i].description = "Initial Balance" THEN "opening" ELSE "manual"]]

\* Loan rows without the filter on isDisabled: one row for every loan.
LoanRowsOfAll(ls) ==
    [i \in 1..Len(ls) |->
        [id |-> <<"loan", ls[i].id>>, date |-> ls[i].date,
         datetime |-> ls[i].date * HoursPerDay + 1,
         inflow |-> 0, outflow |-> ls[i].netGiven, balance |-> 0,
         type |-> "loan"]]

\* Loan rows: loans.filter(loan => loan && loan.id && !loan.isDisabled)
LoanRows(ls) ==
    LET enabled == SelectSeq(ls, LAMBDA l : ~l.isDisabled)
    IN  [i \in 1..Len(enabled) |->
            [id |-> <<"loan", enabled[i].id>>, date |-> enabled[i].date,
             datetime |-> enabled[i].date * HoursPerDay + 1,
             inflow |-> 0, outflow |-> enabled[i].netGiven, balance |-> 0,
             type |-> "loan"]]

\* The keys of collectionsByDate in insertion order: the dates of the
\* collections with a truthy amountPaid, each at its first appearance.
RECURSIVE CollectionDates(_, _)
CollectionDates(cs, seen) ==
    IF cs = <<>> THEN <<>>
    ELSE IF Head(cs).amountPaid = 0 \/ Head(cs).date \in seen
         THEN CollectionDates(Tail(cs), seen)
         ELSE <<Head(cs).date>> \o CollectionDates(Tail(cs), seen \cup {Head(cs).date})

\* dayCollections.reduce((sum, c) => sum + (Number(c.amountPaid) || 0), 0)
RECURSIVE SumOfDate(_, _)
SumOfDate(cs, date) ==
    IF cs = <<>> THEN 0
    ELSE (IF Head(cs).date = date THEN Head(cs).amountPaid ELSE 0) + SumOfDate(Tail(cs), date)

\* Collection rows without the test totalAmount > 0: one per grouped date.
CollectionRowsOfEveryDate(cs) ==
    LET dates == CollectionDates(cs, {})
    IN  [i \in 1..Len(dates) |->
            [id |-> <<"collection", dates[i]>>, date |-> dates[i],
             datetime |-> dates[i] * HoursPerDay + 2,
             inflow |-> SumOfDate(cs, dates[i]), outflow |-> 0, balance |-> 0,
             type |-> "collection"]]

\* Collection rows: one per date whose total is > 0.
CollectionRows(cs) ==
    LET dates == SelectSeq(CollectionDates(cs, {}), LAMBDA d : SumOfDate(cs, d) > 0)
    IN  [i \in 1..Len(dates) |->
            [id |-> <<"collection", dates[i]>>, date |-> dates[i],
             datetime |-> dates[i] * HoursPerDay + 2,
             inflow |-> SumOfDate(cs, dates[i]), outflow |-> 0, balance |-> 0,
             type |-> "collection"]]

\* const priority = { opening: 0, manual: 1, loan: 2, collection: 3 }
priority == [opening |-> 0, manual |-> 1, loan |-> 2, collection |-> 3]

\* A comparator on the datetime alone, without the priority of the types.
CompareRowsNoPriority(a, b) == a.datetime - b.datetime

\* The sort comparator: <= 0 when a need not come after b.
CompareRows(a, b) ==
    IF a.datetime = b.datetime THEN priority[a.type] - priority[b.type]
    ELSE a.datetime - b.datetime

\* transactions.sort(comparator): stable, so rows the comparator ties keep
\* their order of insertion.
RECURSIVE SortRows(_)
SortRows(rows) ==
    IF rows = <<>> THEN <<>>
    ELSE LET sorted == SortRows(SubSeq(rows, 1, Len(rows) - 1))
             x == rows[Len(rows)]
             k == Cardinality({i \in 1..Len(sorted) : CompareRows(sorted[i], x) <= 0})
         IN  SubSeq(sorted, 1, k) \o <<x>> \o SubSeq(sorted, k + 1, Len(sorted))

\* A pass that treats a fund row like any other row: it adds the row's
\* inflow - outflow to the accumulator and overwrites the row's balance.
RECURSIVE RunningPassAccumulate(_, _)
RunningPassAccumulate(rows, runningBalance) ==
    IF rows = <<>> THEN <<>>
    ELSE LET b == runningBalance + Head(rows).inflow - Head(rows).outflow
         IN  <<Spread(Head(rows), [balance |-> b])>> \o RunningPassAccumulate(Tail(rows), b)

\* The running balance pass: a fund row resets the accumulator to its stored
\* balance, a loan or collection row adds inflow - outflow to it.
RECURSIVE RunningPass(_, _)
RunningPass(rows, runningBalance) ==
    IF rows = <<>> THEN <<>>
    ELSE LET t == Head(rows)
         IN  IF t.type = "manual" \/ t.type = "opening"
             THEN <<t>> \o RunningPass(Tail(rows), t.balance)
             ELSE LET b == runningBalance + t.inflow - t.outflow
                  IN  <<Spread(t, [balance |-> b])>> \o RunningPass(Tail(rows), b)

\* A ledger that leaves out the collections of disabled loans too.
transactionHistoryOfEnabled(fs, ls, cs) ==
    LET enabled(c) == \E i \in 1..Len(ls) : ls[i].id = c.loanId /\ ~ls[i].isDisabled
    IN  RunningPass(SortRows(FundRows(fs) \o LoanRows(ls)
                             \o CollectionRows(SelectSeq(cs, enabled))), 0)

transactionHistory(fs, ls, cs) ==
    RunningPass(SortRows(FundRows(fs) \o LoanRows(ls) \o CollectionRows(cs)), 0)

\* Dependencies that are the lengths of the three arrays only.
MemoDepsByLength(fs, ls, cs) == <<Len(fs), Len(ls), Len(cs)>>

\* The dependencies of useMemo: [funds, loans, collections].  React compares
\* them by reference and every setter call makes a new array, so arrays that
\* differ in value differ as dependencies; transactionHistory is computed
\* again in the render after an event unless the dependencies are the same.
MemoDeps(fs, ls, cs) == <<fs, ls, cs>>

\* FundTracker's currentBalance: the balance of the ledger's last row, or 0.
currentBalance(ledger) ==
    IF Len(ledger) > 0 THEN ledger[Len(ledger)].balance ELSE 0

\* values.reduce((sum, v) => sum + v, 0)
RECURSIVE Sum(_)
Sum(values) == IF values = <<>> THEN 0 ELSE Head(values) + Sum(Tail(values))

\* FundTracker's totalInflow and totalOutflow: the sums over the ledger.
totalInflowOf(ledger) == Sum([i \in 1..Len(ledger) |-> ledger[i].inflow])

totalOutflowOf(ledger) == Sum([i \in 1..Len(ledger) |-> ledger[i].outflow])

\* ------------------------------------------------ Aggregate Metrics Reporter
\* Dashboard.calculateMetrics, a function of the rendered loans, collections
\* and funds and of the day it runs on.

\* cashInHand: the stored balance of the last fund by date, less the netGiven
\* of the enabled loans dated after that fund, plus the collections dated
\* after it; 0 without funds.
cashInHand(fs, ls, cs) ==
    LET sortedFunds == SortByDate(fs)
    IN  IF Len(sortedFunds) = 0 THEN 0
        ELSE LET lastFundDate == sortedFunds[Len(sortedFunds)].date
                 recentLoanAmount ==
                     Sum([i \in 1..Len(ls) |->
                            IF ~ls[i].isDisabled /\ ls[i].date > lastFundDate
                            THEN ls[i].netGiven ELSE 0])
                 recentCollectionAmount ==
                     Sum([i \in 1..Len(cs) |->
                            IF cs[i].date > lastFundDate THEN cs[i].amountPaid ELSE 0])
             IN  sortedFunds[Len(sortedFunds)].balance
                    - recentLoanAmount + recentCollectionAmount

\* availableCash = currentBalance of the revision of Dashboard that has no
\* cashInHand: all collections, less the netGiven of all loans, plus the
\* funds' net inflow.
availableCash(fs, ls, cs) ==
    LET totalCollections == Sum([i \in 1..Len(cs) |-> cs[i].amountPaid])
        totalOutflow == Sum([i \in 1..Len(ls) |-> ls[i].netGiven])
        fundBalance == Sum([i \in 1..Len(fs) |-> fs[i].inflow - fs[i].outflow])
    IN  totalCollections - totalOutflow + fundBalance

\* outstandingAmount: over the loans that are not disabled and whose stored
\* status is not Completed, max(0, loanAmount - the loan's collections).
outstandingAmount(ls, cs) ==
    Sum([i \in 1..Len(ls) |->
           IF ~ls[i].isDisabled /\ ls[i].status # "Completed"
           THEN Max(0, ls[i].loanAmount - SumPaid(cs, ls[i].id)) ELSE 0])

\* An expectedProfit over the loans that are not disabled only.
expectedProfitOfEnabled(ls) ==
    Sum([i \in 1..Len(ls) |->
           IF ls[i].isDisabled THEN 0
           ELSE ls[i].deduction + (ls[i].loanAmount - ls[i].netGiven)])

\* expectedProfit: deduction + (loanAmount - netGiven) over all loans.
expectedProfit(ls) ==
    Sum([i \in 1..Len(ls) |-> ls[i].deduction + (ls[i].loanAmount - ls[i].netGiven)])

\* Math.ceil(a / b) for b > 0.
Ceil(a, b) == 0 - ((0 - a) \div b)

\* remainingDays <= 10 && remainingDays > 0
NearToClosingDays == 10

\* A nearToClosing filter with remainingDays < 10 for remainingDays <= 10.
nearToClosingBelow(loan) ==
    IF loan.status = "Completed" \/ loan.isDisabled THEN FALSE
    ELSE IF loan.dailyPay = 0 THEN FALSE
    ELSE LET remainingDays ==
                 Ceil(Max(0, loan.loanAmount - loan.collected), loan.dailyPay)
         IN  remainingDays < NearToClosingDays /\ remainingDays > 0

\* The nearToClosingCustomers filter.  With dailyPay = 0 the quotient is
\* Infinity (remainingAmount > 0) or NaN (0 / 0), and both comparisons with
\* either are false.
nearToClosing(loan) ==
    IF loan.status = "Completed" \/ loan.isDisabled THEN FALSE
    ELSE LET remainingAmount == Max(0, loan.loanAmount - loan.collected)
         IN  IF loan.dailyPay = 0 THEN FALSE
             ELSE LET remainingDays == Ceil(remainingAmount, loan.dailyPay)
                  IN  remainingDays <= NearToClosingDays /\ remainingDays > 0

\* daysSinceLoan >= 3, daysSinceLastPayment >= 3
PaymentDelayDays == 3

\* The date of the first of a loan's collections sorted by date, latest first.
RECURSIVE LastCollectionDate(_, _, _)
LastCollectionDate(cs, loanId, latest) ==
    IF cs = <<>> THEN latest
    ELSE LastCollectionDate(Tail(cs), loanId,
            IF Head(cs).loanId = loanId THEN Max(latest, Head(cs).date) ELSE latest)

\* The paymentDelayCustomers filter on the day `today`: whole days since the
\* loan's last collection, or since the loan's date if it has no collection.
paymentDelayed(loan, cs, today) ==
    IF loan.status = "Completed" \/ loan.isDisabled THEN FALSE
    ELSE IF SelectSeq(cs, LAMBDA c : c.loanId = loan.id) = <<>>
         THEN today - loan.date >= PaymentDelayDays
         ELSE today - LastCollectionDate(cs, loan.id, 0) >= PaymentDelayDays

\* ------------------------------------------------------------------ events
\* What the last event was: the operation, the loan id it was called with, the
\* custom amount typed (0 for the other forms), the title of the toast its
\* handler showed ("none" for a hook operation called without a form) and the
\* number of collections in the render the handler ran in.
Event(op, id, amount, toast) ==
    [op |-> op, id |-> id, amount |-> amount, toast |-> toast,
     count |-> Len(collections)]

Init ==
    /\ loans = <<>>
    /\ collections = <<>>
    /\ funds = <<>>
    /\ last = Event("init", "", 0, "none")

\* LoanSummary.handleSubmit: the loan form; netGiven = loanAmount - deduction.
LoanFormSubmit(ids, dates, amounts, deductions, dailyPays) ==
    \E id \in ids, d \in dates, a \in amounts, ded \in deductions, pay \in dailyPays :
        /\ Len(loans) < MaxLoans
        /\ loans' = addLoan(loans, collections,
                            [id |-> id, date |-> d, loanAmount |-> a, deduction |-> ded,
                             netGiven |-> a - ded, dailyPay |-> pay,
                             isDisabled |-> FALSE])
        /\ last' = Event("addLoan", id, 0, "Success")
        /\ UNCHANGED <<collections, funds>>

\* The updates objects updateLoan is called with: an input field or a derived
\* field.
Updates ==
    [loanAmount : Amounts] \cup [collected : {2}] \cup [status : {"Completed"}]

\* updateLoan, called from no form of the repository.
UpdateLoan ==
    \E id \in LoanIds, u \in Updates :
        /\ loans' = updateLoan(loans, collections, id, u)
        /\ last' = Event("updateLoan", id, 0, "none")
        /\ UNCHANGED <<collections, funds>>

\* LoanSummary.handleDelete, confirmed.
HandleDelete ==
    \E id \in LoanIds :
        /\ loans' = deleteLoanLoans(loans, id)
        /\ collections' = deleteLoanCollections(collections, id)
        /\ last' = Event("deleteLoan", id, 0, "Success")
        /\ UNCHANGED funds

\* LoanSummary.handleToggleStatus
HandleToggleStatus ==
    \E id \in LoanIds :
        /\ loans' = toggleLoanStatus(loans, collections, id)
        /\ last' = Event("toggleLoanStatus", id, 0, "Success")
        /\ UNCHANGED <<collections, funds>>

\* A daily entry form that records the collection without looking the loan up.
DailyCollectionSubmitUnchecked(ids, dates, amounts) ==
    \E id \in ids, d \in dates, a \in amounts :
        /\ Len(collections) < MaxCollections
        /\ LET c == [date |-> d, loanId |-> id, amountPaid |-> a]
           IN  /\ collections' = addCollectionCollections(collections, c)
               /\ loans' = addCollectionLoans(loans, collections, c)
               /\ last' = Event("addCollection", id, 0, "Success")
        /\ UNCHANGED funds

\* DailyCollections.handleSubmit: the daily entry form.
DailyCollectionSubmit(ids, dates, amounts) ==
    \E id \in ids, d \in dates, a \in amounts :
        /\ Len(collections) < MaxCollections
        /\ IF FindLoan(loans, id) = 0
           THEN /\ last' = Event("addCollection", id, 0, "Error")
                /\ UNCHANGED <<loans, collections>>
           ELSE LET c == [date |-> d, loanId |-> id, amountPaid |-> a]
                IN  /\ collections' = addCollectionCollections(collections, c)
                    /\ loans' = addCollectionLoans(loans, collections, c)
                    /\ last' = Event("addCollection", id, 0, "Success")
        /\ UNCHANGED funds

\* LoanSummary.submitBulkCollection and the '100days' branch of
\* EnhancedBulkCollection.handleSubmit: addBulkCollection, then the success
\* toast, whatever addBulkCollection did.
SubmitBulkCollection(dates) ==
    \E id \in LoanIds, today \in dates :
        /\ Len(collections) < MaxCollections
        /\ LET newCollection == addBulkCollection(loans, id, today)
           IN  IF newCollection = <<>>
               THEN /\ last' = Event("addBulkCollection", id, 0, "Success")
                    /\ UNCHANGED <<loans, collections>>
               ELSE /\ collections' = addCollectionCollections(collections, newCollection[1])
                    /\ loans' = addCollectionLoans(loans, collections, newCollection[1])
                    /\ last' = Event("addBulkCollection", id, 0, "Success")
        /\ UNCHANGED funds

\* The amounts typed into the custom amount field, after parseFloat.
CustomAmounts == {0 - 1, 0} \cup Amounts

\* A check that never compares the amount with the balance.
customAmountCheckNoLimit(customAmount, maxCollectionAmount) ==
    IF customAmount = 0 \/ customAmount <= 0 THEN "invalid" ELSE "ok"

\* The two checks of the 'custom' branch, in order: "invalid" for
\* !customAmount || customAmount <= 0 (0 stands for NaN too: both are falsy),
\* "exceeds" for customAmount > maxCollectionAmount, else "ok".
customAmountCheck(customAmount, maxCollectionAmount) ==
    IF customAmount = 0 \/ customAmount <= 0 THEN "invalid"
    ELSE IF customAmount > maxCollectionAmount THEN "exceeds"
    ELSE "ok"

\* The 'custom' branch of EnhancedBulkCollection.handleSubmit.
SubmitCustomCollection(dates) ==
    \E id \in LoanIds, today \in dates, customAmount \in CustomAmounts :
        /\ Len(collections) < MaxCollections
        /\ LET i == FindLoan(loans, id)
               maxCollectionAmount == IF i = 0 THEN 0 ELSE loans[i].balance
           IN  IF customAmountCheck(customAmount, maxCollectionAmount) # "ok"
               THEN /\ last' = Event("customCollection", id, customAmount, "Error")
                    /\ UNCHANGED <<loans, collections>>
               ELSE LET c == [date |-> today, loanId |-> id, amountPaid |-> customAmount]
                    IN  /\ collections' = addCollectionCollections(collections, c)
                        /\ loans' = addCollectionLoans(loans, collections, c)
                        /\ last' = Event("customCollection", id, customAmount, "Success")
        /\ UNCHANGED funds

\* The amounts typed into the inflow and outflow fields, after parseFloat(..) || 0.
FundAmounts == {0, 1}

\* The amounts typed into the initial balance field.
InitialAmounts == {2}

\* FundTracker.handleSubmit: a manual entry; one of inflow, outflow is not 0.
FundFormSubmit ==
    \E d \in Dates, inflowAmount \in FundAmounts, outflowAmount \in FundAmounts :
        /\ Len(funds) < MaxFunds
        /\ IF inflowAmount = 0 /\ outflowAmount = 0
           THEN /\ last' = Event("addFund", "", 0, "Validation Error")
                /\ UNCHANGED funds
           ELSE /\ funds' = addFund(funds, [date |-> d, description |-> "Manual",
                                            inflow |-> inflowAmount,
                                            outflow |-> outflowAmount])
                /\ last' = Event("addFund", "", 0, "Success")
        /\ UNCHANGED <<loans, collections>>

\* FundTracker.handleInitialBalance: the opening balance, dated today.
HandleInitialBalance ==
    \E today \in Dates, initialBalance \in InitialAmounts :
        /\ Len(funds) < MaxFunds
        /\ funds' = addFund(funds, [date |-> today, description |-> "Initial Balance",
                                    inflow |-> initialBalance, outflow |-> 0])
        /\ last' = Event("addInitialBalance", "", 0, "Success")
        /\ UNCHANGED <<loans, collections>>

\* ---------------------------------------------------------- specifications
\* The record store under the loan and collection forms, all on one day.
Next ==
    \/ LoanFormSubmit(LoanIds, OneDay, Amounts, Deductions, {1})
    \/ UpdateLoan
    \/ HandleDelete
    \/ HandleToggleStatus
    \/ DailyCollectionSubmit(LoanIds, OneDay, Amounts)
    \/ SubmitBulkCollection(OneDay)
    \/ SubmitCustomCollection(OneDay)

Spec == Init /\ [][Next]_vars

\* The ledger's three record sets over two days: the fund forms, the loan form
\* with one amount, the daily collection form, disabling and deleting.
NextLedger ==
    \/ FundFormSubmit
    \/ HandleInitialBalance
    \/ LoanFormSubmit({"L1"}, Dates, {2}, {1}, {1})
    \/ HandleToggleStatus
    \/ DailyCollectionSubmit({"L1"}, Dates, {1})

SpecLedger == Init /\ [][NextLedger]_vars

\* The fund forms over two days, next to the loan form.
NextFunds ==
    \/ FundFormSubmit
    \/ HandleInitialBalance
    \/ LoanFormSubmit({"L1"}, Dates, {2}, {1}, {1})

SpecFunds == Init /\ [][NextFunds]_vars

\* The amounts typed into the daily form's amount field, after parseFloat:
\* the form only asks for a non-empty text.
PaidAmounts == {0 - 1, 0, 1, 2}

\* The daily collection form with any amount over two days, one loan and its
\* deletion.
NextCollections ==
    \/ LoanFormSubmit({"L1"}, OneDay, {2}, {1}, {1})
    \/ DailyCollectionSubmit({"L1"}, Dates, PaidAmounts)
    \/ HandleDelete

SpecCollections == Init /\ [][NextCollections]_vars

\* The daily pay typed into the loan form, after parseFloat: the form only
\* asks for a non-empty text, so 0 passes.
DailyPays == {0, 1, 5}

\* One loan of 12 with any daily pay, its collections and disabling.
NextDashboard ==
    \/ LoanFormSubmit({"L1"}, OneDay, {12}, {1}, DailyPays)
    \/ DailyCollectionSubmit({"L1"}, OneDay, {1, 2})
    \/ HandleToggleStatus

SpecDashboard == Init /\ [][NextDashboard]_vars

\* Loans collected only through the bulk dialog, in full or by a custom
\* amount, next to the opening balance form.
NextBulk ==
    \/ LoanFormSubmit(LoanIds, OneDay, Amounts, {0}, {1})
    \/ SubmitBulkCollection(OneDay)
    \/ SubmitCustomCollection(OneDay)
    \/ HandleToggleStatus
    \/ HandleInitialBalance

SpecBulk == Init /\ [][NextBulk]_vars

\* Loans entered, updated through updateLoan and collected on by the daily
\* form.
NextUpdate ==
    \/ LoanFormSubmit(LoanIds, OneDay, Amounts, Deductions, {1})
    \/ UpdateLoan
    \/ DailyCollectionSubmit(LoanIds, OneDay, {1})

SpecUpdate == Init /\ [][NextUpdate]_vars

\* The days the dashboard is rendered on.
Todays == {4, 5}

\* ------------------------------------------------------------------ claims
\* The ledger of the current render.
Ledger == transactionHistory(funds, loans, collections)

\* The loan an event was called with, as loans.find sees it in ls (0 if none).
Selected(ls, e) == FindLoan(ls, e.id)

\* C1: every stored loan's collected is the sum of amountPaid over the stored
\* collections with its id, also right after addCollection.
C1_CollectedIsSum ==
    \A i \in 1..Len(loans) : loans[i].collected = SumPaid(collections, loans[i].id)

\* C2: every stored loan has totalToReceive = loanAmount and
\* balance = max(0, totalToReceive - collected) on its own stored fields, and
\* the balance is never negative.
C2_BalanceClamped ==
    \A i \in 1..Len(loans) :
        /\ loans[i].totalToReceive = loans[i].loanAmount
        /\ loans[i].balance = Max(0, loans[i].totalToReceive - loans[i].collected)
        /\ loans[i].balance >= 0

\* A loan whose stored collected exceeds its loanAmount, with balance 0.
C2_Witness ==
    \E i \in 1..Len(loans) :
        /\ loans[i].collected > loans[i].loanAmount
        /\ loans[i].balance = 0

\* C3: status is Disabled iff isDisabled; otherwise Completed iff balance <= 0,
\* else Ongoing.
C3_StatusFunction ==
    \A i \in 1..Len(loans) :
        /\ (loans[i].status = "Disabled") <=> loans[i].isDisabled
        /\ ~loans[i].isDisabled =>
              /\ (loans[i].status = "Completed") <=> (loans[i].balance <= 0)
              /\ (loans[i].status = "Ongoing") <=> (loans[i].balance > 0)

\* A disabled loan with nothing left to pay, after a toggle: Disabled, not Completed.
C3_Witness ==
    /\ last.op = "toggleLoanStatus"
    /\ \E i \in 1..Len(loans) :
          /\ loans[i].id = last.id
          /\ loans[i].isDisabled
          /\ loans[i].balance = 0
          /\ loans[i].status = "Disabled"

\* C4: in every reachable state, toggleLoanStatus(id) twice in a row leaves
\* every loan with the status and isDisabled it had before the first toggle.
C4_ToggleTwiceRestores ==
    \A id \in LoanIds :
        LET once  == toggleLoanStatus(loans, collections, id)
            twice == toggleLoanStatus(once, collections, id)
        IN  \A i \in 1..Len(loans) :
                /\ twice[i].status = loans[i].status
                /\ twice[i].isDisabled = loans[i].isDisabled

\* C5: a deleteLoan(id) step leaves no loan with that id and no collection
\* referencing it, in the same step, and keeps every other loan and collection.
C5_DeleteCascades ==
    [][last'.op = "deleteLoan" =>
          /\ \A i \in 1..Len(loans') : loans'[i].id # last'.id
          /\ \A j \in 1..Len(collections') : collections'[j].loanId # last'.id
          /\ Len(loans') = Cardinality({i \in 1..Len(loans) : loans[i].id # last'.id})
          /\ Len(collections')
                = Cardinality({j \in 1..Len(collections) : collections[j].loanId # last'.id})]_vars

\* A delete that removed collections: the store holds fewer than its handler saw.
C5_Witness ==
    /\ last.op = "deleteLoan"
    /\ last.count > Len(collections)

\* C6: a full-mode bulk collection on a loan with stored balance b > 0 appends
\* exactly one collection (that loan's id, amountPaid = b), and right after it
\* the loan's balance is 0 and, unless disabled, its status Completed.
C6_BulkSettles ==
    [][(/\ last'.op = "addBulkCollection"
        /\ Selected(loans, last') # 0
        /\ loans[Selected(loans, last')].balance > 0) =>
          LET i == Selected(loans, last')
          IN  /\ Len(collections') = Len(collections) + 1
              /\ SubSeq(collections', 1, Len(collections)) = collections
              /\ collections'[Len(collections')].loanId = last'.id
              /\ collections'[Len(collections')].amountPaid = loans[i].balance
              /\ loans'[i].balance = 0
              /\ ~loans'[i].isDisabled => loans'[i].status = "Completed"]_vars

\* C7: a full-mode bulk collection for a missing loan, or one whose balance is
\* <= 0, gives the caller an error outcome and changes no record set.
C7_BulkRejects ==
    [][(/\ last'.op = "addBulkCollection"
        /\ \/ Selected(loans, last') = 0
           \/ loans[Selected(loans, last')].balance <= 0) =>
          /\ last'.toast = "Error"
          /\ UNCHANGED <<loans, collections, funds>>]_vars

\* C8: a custom collection with customAmount <= 0 (or NaN), or above the
\* selected loan's balance, is rejected with an error: no collection is
\* inserted and no loan changes.
C8_CustomRejects ==
    [][(/\ last'.op = "customCollection"
        /\ \/ last'.amount <= 0
           \/ Selected(loans, last') = 0
           \/ last'.amount > loans[Selected(loans, last')].balance) =>
          /\ last'.toast = "Error"
          /\ UNCHANGED <<loans, collections, funds>>]_vars

\* A custom amount above a positive balance was rejected.
C8_Witness ==
    /\ last.op = "customCollection"
    /\ last.toast = "Error"
    /\ last.count = Len(collections)
    /\ Selected(loans, last) # 0
    /\ loans[Selected(loans, last)].balance > 0
    /\ last.amount > loans[Selected(loans, last)].balance

\* C9: every stored loan has profit = deduction + max(0, collected - netGiven).
C9_ProfitFormula ==
    \A i \in 1..Len(loans) :
        loans[i].profit
            = loans[i].deduction + Max(0, loans[i].collected - loans[i].netGiven)

\* The fund a ledger row of type opening or manual was built from.
FundOf(row) == funds[row.id[2]]

\* C10: in the ledger, a loan or collection row's balance is the previous
\* row's balance (0 before the first row) + inflow - outflow; an opening or
\* manual row's balance is the stored balance of its fund.
C10_LedgerContinuity ==
    LET ledger == Ledger
    IN  \A i \in 1..Len(ledger) :
            LET row == ledger[i]
                previous == IF i = 1 THEN 0 ELSE ledger[i - 1].balance
            IN  IF row.type \in {"loan", "collection"}
                THEN row.balance = previous + row.inflow - row.outflow
                ELSE row.balance = FundOf(row).balance

\* A fund row that resets the balance left by a loan or collection row, and a
\* loan or collection row that continues from a fund row.
C10_Witness ==
    /\ \E i \in 2..Len(Ledger) :
          /\ Ledger[i].type \in {"opening", "manual"}
          /\ Ledger[i - 1].type \in {"loan", "collection"}
          /\ Ledger[i].balance
                # Ledger[i - 1].balance + Ledger[i].inflow - Ledger[i].outflow
    /\ \E i \in 2..Len(Ledger) :
          /\ Ledger[i].type \in {"loan", "collection"}
          /\ Ledger[i - 1].type \in {"opening", "manual"}

\* The place of a row's type within one calendar date: opening and manual
\* rows, then loan rows, then the collection row.
TypeClass(type) ==
    IF type \in {"opening", "manual"} THEN 0 ELSE IF type = "loan" THEN 1 ELSE 2

\* The ledger of one Initial Balance fund of 50000 and a loan with netGiven
\* 9500 issued the same day.
ExampleLedger ==
    transactionHistory(
        addFund(<<>>, [date |-> 1, description |-> "Initial Balance",
                       inflow |-> 50000, outflow |-> 0]),
        addLoan(<<>>, <<>>, [id |-> "L1", date |-> 1, loanAmount |-> 10000,
                             deduction |-> 500, netGiven |-> 9500, dailyPay |-> 100,
                             isDisabled |-> FALSE]),
        <<>>)

\* C11: the ledger is ascending by datetime, rows of one datetime by priority
\* opening < manual < loan < collection; so rows of an earlier date precede
\* rows of a later date and, within one date, opening and manual rows precede
\* loan rows, which precede the collection row.  An Initial Balance of 50000
\* and a same-day loan of netGiven 9500 give the opening row (50000) and then
\* the loan row (40500).
C11_LedgerSorted ==
    LET ledger == Ledger
    IN  /\ \A i, j \in 1..Len(ledger) :
              i < j =>
                  /\ \/ ledger[i].datetime < ledger[j].datetime
                     \/ /\ ledger[i].datetime = ledger[j].datetime
                        /\ priority[ledger[i].type] <= priority[ledger[j].type]
                  /\ ledger[i].date <= ledger[j].date
                  /\ ledger[i].date = ledger[j].date
                        => TypeClass(ledger[i].type) <= TypeClass(ledger[j].type)
        /\ [i \in 1..Len(ExampleLedger) |->
                <<ExampleLedger[i].type, ExampleLedger[i].balance>>]
              = <<(<<"opening", 50000>>), (<<"loan", 40500>>)>>

\* An opening row, a loan row and a collection row of one date, in this
\* order, before a row of a later date; the opening balance was entered last,
\* and a manual entry of its date before it.
C11_Witness ==
    LET ledger == Ledger
    IN  /\ last.op = "addInitialBalance"
        /\ Len(ledger) = 5
        /\ [i \in 1..5 |-> ledger[i].type]
              = <<"opening", "manual", "loan", "collection", "collection">>
        /\ [i \in 1..5 |-> ledger[i].date] = <<1, 1, 1, 1, 2>>
        /\ ledger[3].balance = ledger[2].balance - loans[1].netGiven

\* A ledger's rows without their balances.
Entries(ledger) ==
    [i \in 1..Len(ledger) |->
        [id |-> ledger[i].id, date |-> ledger[i].date, type |-> ledger[i].type,
         inflow |-> ledger[i].inflow, outflow |-> ledger[i].outflow]]

\* C12: the ledger's loan rows are one row per loan that is not disabled,
\* with inflow 0 and outflow netGiven, and none for a disabled loan; so
\* toggleLoanStatus on an enabled loan takes exactly that loan's row out of
\* the ledger, and a second toggleLoanStatus gives the first ledger again.
C12_LoanRows ==
    LET ledger == Ledger
        rows == SelectSeq(ledger, LAMBDA r : r.type = "loan")
        enabled == SelectSeq(loans, LAMBDA l : ~l.isDisabled)
    IN  /\ Len(rows) = Len(enabled)
        /\ \A k \in 1..Len(enabled) :
              Cardinality({i \in 1..Len(rows) :
                  /\ rows[i].id = <<"loan", enabled[k].id>>
                  /\ rows[i].date = enabled[k].date
                  /\ rows[i].outflow = enabled[k].netGiven
                  /\ rows[i].inflow = 0})
              = Cardinality({i \in 1..Len(enabled) :
                  /\ enabled[i].id = enabled[k].id
                  /\ enabled[i].date = enabled[k].date
                  /\ enabled[i].netGiven = enabled[k].netGiven})
        /\ \A id \in {loans[i].id : i \in 1..Len(loans)} :
              LET off == toggleLoanStatus(loans, collections, id)
                  back == toggleLoanStatus(off, collections, id)
              IN  /\ transactionHistory(funds, back, collections) = ledger
                  /\ (\A i \in 1..Len(loans) :
                         loans[i].id = id => ~loans[i].isDisabled)
                        => Entries(transactionHistory(funds, off, collections))
                           = SelectSeq(Entries(ledger),
                                       LAMBDA r : ~(r.type = "loan" /\ r.id = <<"loan", id>>))

\* A disabled loan right after toggleLoanStatus: the ledger has fund and
\* collection rows and no loan row.
C12_Witness ==
    LET ledger == Ledger
    IN  /\ last.op = "toggleLoanStatus"
        /\ Len(loans) = 1 /\ loans[1].isDisabled
        /\ \A i \in 1..Len(ledger) : ledger[i].type # "loan"
        /\ \E i \in 1..Len(ledger) : ledger[i].type = "collection"
        /\ \E i \in 1..Len(ledger) : ledger[i].type = "opening"

\* The total of amountPaid over the stored collections of a date.
RECURSIVE TotalOfDate(_, _)
TotalOfDate(k, date) ==
    IF k = 0 THEN 0
    ELSE TotalOfDate(k - 1, date)
         + (IF collections[k].date = date THEN collections[k].amountPaid ELSE 0)

\* C13: the ledger has one collection row for each date whose stored
\* collections total more than 0, with inflow that total and outflow 0, and
\* no collection row for a date whose collections total 0 or less.
C13_CollectionRows ==
    LET ledger == Ledger
        rows == SelectSeq(ledger, LAMBDA r : r.type = "collection")
    IN  /\ \A d \in Dates :
              Cardinality({i \in 1..Len(rows) : rows[i].date = d})
                  = IF TotalOfDate(Len(collections), d) > 0 THEN 1 ELSE 0
        /\ \A i \in 1..Len(rows) :
              /\ rows[i].date \in Dates
              /\ rows[i].inflow = TotalOfDate(Len(collections), rows[i].date)
              /\ rows[i].outflow = 0

\* A date whose one collection is negative, without a row, and a later date
\* with its row, after the loan's row.
C13_Witness ==
    LET ledger == Ledger
    IN  /\ Len(collections) = 2
        /\ collections[1].date # collections[2].date
        /\ collections[1].amountPaid < 0
        /\ collections[2].amountPaid = 2
        /\ Len(ledger) = 2
        /\ ledger[2].type = "collection"
        /\ ledger[2].date = collections[2].date
        /\ ledger[2].inflow = 2

\* C14: the cash figure of Dashboard.calculateMetrics (cashInHand, and
\* availableCash in the revision that has no cashInHand) is the balance of the
\* last row of the ledger of the same funds, loans and collections, and 0
\* when the ledger is empty.
C14_CashIsLedgerBalance ==
    LET final == currentBalance(Ledger)
    IN  /\ cashInHand(funds, loans, collections) = final
        /\ availableCash(funds, loans, collections) = final

\* C15: outstandingAmount is the sum of the stored balance of the loans that
\* are not disabled and whose status is not Completed.
C15_OutstandingIsStoredBalance ==
    outstandingAmount(loans, collections)
        = Sum([i \in 1..Len(loans) |->
                 IF ~loans[i].isDisabled /\ loans[i].status # "Completed"
                 THEN loans[i].balance ELSE 0])

\* C16: expectedProfit is the sum of the stored profit of all the loans,
\* disabled and completed ones included.
C16_ExpectedProfitIsStoredProfit ==
    expectedProfit(loans) = Sum([i \in 1..Len(loans) |-> loans[i].profit])

\* A disabled loan with a profit, counted in expectedProfit.
C16_Witness ==
    /\ last.op = "toggleLoanStatus"
    /\ Len(loans) = 1
    /\ loans[1].isDisabled
    /\ loans[1].profit > 0
    /\ expectedProfit(loans) = loans[1].profit

\* C17: a loan is near to closing exactly when it is neither Completed nor
\* disabled and r = ceil(max(0, loanAmount - collected) / dailyPay), the
\* least whole number of daily payments that cover the remaining amount, has
\* 0 < r <= 10; a loan with dailyPay = 0 is never near to closing.  A loan of
\* 1000 with 920 collected and a daily pay of 100 is near to closing.
C17_NearToClosing ==
    /\ \A i \in 1..Len(loans) :
          LET loan == loans[i]
              remaining == IF loan.loanAmount > loan.collected
                           THEN loan.loanAmount - loan.collected ELSE 0
          IN  /\ nearToClosing(loan)
                  <=> /\ loan.status # "Completed"
                      /\ ~loan.isDisabled
                      /\ remaining > 0
                      /\ \E r \in 1..10 : r * loan.dailyPay >= remaining
              /\ loan.dailyPay = 0 => ~nearToClosing(loan)
    /\ nearToClosing([loanAmount |-> 1000, collected |-> 920, dailyPay |-> 100,
                      status |-> "Ongoing", isDisabled |-> FALSE])

\* A loan with exactly 10 daily payments left, near to closing.
C17_Witness ==
    /\ Len(loans) = 1
    /\ loans[1].dailyPay = 1
    /\ loans[1].loanAmount - loans[1].collected = 10
    /\ nearToClosing(loans[1])

\* The later of two dates.
Later(a, b) == IF a >= b THEN a ELSE b

\* C18: on any day, a loan is payment delayed exactly when it is neither
\* Completed nor disabled and the whole days since the later of its issue
\* date and the date of its most recent collection are 3 or more, also when
\* that collection is dated before the issue date.
C18_PaymentDelayed ==
    \A today \in Todays, i \in 1..Len(loans) :
        LET loan == loans[i]
            since == Later(loan.date, LastCollectionDate(collections, loan.id, 0))
        IN  paymentDelayed(loan, collections, today)
                <=> /\ loan.status # "Completed"
                    /\ ~loan.isDisabled
                    /\ today - since >= 3

\* C19: the stored funds are ascending by date and the stored balance of each
\* is the sum of inflow - outflow over the funds up to it, whatever the order
\* of the dates entered; a balance handed to addFund is ignored.
C19_FundsSortedWithRunningBalance ==
    /\ \A i, j \in 1..Len(funds) : i < j => funds[i].date <= funds[j].date
    /\ \A i \in 1..Len(funds) :
          funds[i].balance
              = Sum([k \in 1..i |-> funds[k].inflow - funds[k].outflow])
    /\ \A d \in Dates, b \in {0 - 7, 7} :
          LET fundData == [date |-> d, description |-> "Manual",
                           inflow |-> 1, outflow |-> 0]
              added == addFund(funds, Spread(fundData, [balance |-> b]))
          IN  /\ added = addFund(funds, fundData)
              /\ \A i \in 1..Len(added) :
                    added[i].balance
                        = Sum([k \in 1..i |-> added[k].inflow - added[k].outflow])

\* An opening balance entered last and dated before the manual entry that
\* was there: it is stored first, and the manual entry's balance includes it.
C19_Witness ==
    /\ last.op = "addInitialBalance"
    /\ Len(funds) = 2
    /\ funds[1].description = "Initial Balance"
    /\ funds[2].description = "Manual"
    /\ funds[1].date < funds[2].date
    /\ funds[2].balance = funds[1].inflow + funds[2].inflow - funds[2].outflow

UniqueIds(ls) == \A i, j \in 1..Len(ls) : ls[i].id = ls[j].id => i = j

\* C21: after any addLoan or updateLoan no two stored loans have the same id,
\* and updateLoan leaves the id of every loan as it was.
C21_IdsUniqueAndImmutable ==
    /\ UniqueIds(loans)
    /\ \A id \in LoanIds :
          UniqueIds(addLoan(loans, collections,
                            [id |-> id, date |-> 1, loanAmount |-> 1, deduction |-> 0,
                             netGiven |-> 1, dailyPay |-> 1, isDisabled |-> FALSE]))
    /\ \A id \in LoanIds, newId \in LoanIds :
          LET updated == updateLoan(loans, collections, id, [id |-> newId])
          IN  \A i \in 1..Len(loans) : updated[i].id = loans[i].id

\* C22: every stored collection has amountPaid > 0.
C22_AmountPaidPositive ==
    \A k \in 1..Len(collections) : collections[k].amountPaid > 0

\* The stored loans, each derived anew from the collections.
Rederived(ls, cs) == [i \in 1..Len(ls) |-> calculateLoanMetrics(ls[i], cs)]

\* C23: calculateLoanMetrics applied to its own output with the same
\* collections gives that output again, for every stored loan, fresh or
\* stale; and the ledger built from the loans derived anew is the ledger
\* built from the stored loans: a second run on the same record sets adds
\* nothing.
C23_CalculatorIdempotent ==
    LET once == Rederived(loans, collections)
    IN  /\ Rederived(once, collections) = once
        /\ transactionHistory(funds, once, collections) = Ledger

\* A stored loan whose derived fields are behind its collections, so that
\* the first run of the calculator changes it, next to a fund.
C23_Witness ==
    /\ Len(loans) = 1
    /\ Len(funds) > 0
    /\ calculateLoanMetrics(loans[1], collections) # loans[1]
    /\ loans[1].collected < SumPaid(collections, loans[1].id)

InputFields(loan) ==
    [id |-> loan.id, date |-> loan.date, loanAmount |-> loan.loanAmount,
     deduction |-> loan.deduction, netGiven |-> loan.netGiven,
     dailyPay |-> loan.dailyPay, isDisabled |-> loan.isDisabled]

\* C25: adding a collection, from the bulk dialog or by addCollection with
\* any collection, leaves the funds, the number of loans, every loan's input
\* fields and every loan with another id as they were; an event that adds no
\* collection leaves every loan as it was.
C25_CollectionFrame ==
    [][/\ last'.op \in {"addCollection", "addBulkCollection", "customCollection"}
          => /\ funds' = funds
             /\ Len(loans') = Len(loans)
             /\ \A i \in 1..Len(loans) :
                   /\ InputFields(loans'[i]) = InputFields(loans[i])
                   /\ collections' = collections => loans'[i] = loans[i]
                   /\ (/\ collections' # collections
                       /\ loans[i].id # collections'[Len(collections')].loanId)
                         => loans'[i] = loans[i]
       /\ \A id \in LoanIds, a \in Amounts :
             LET c == [date |-> 1, loanId |-> id, amountPaid |-> a]
                 after == addCollectionLoans(loans, collections, c)
             IN  /\ Len(after) = Len(loans)
                 /\ \A i \in 1..Len(loans) :
                       /\ InputFields(after[i]) = InputFields(loans[i])
                       /\ loans[i].id # id => after[i] = loans[i]]_vars

\* A custom collection changed the derived fields of its loan while the
\* store has a fund.
C25_Witness ==
    /\ last.op = "customCollection"
    /\ last.toast = "Success"
    /\ Len(funds) > 0
    /\ Len(collections) = 2
    /\ Selected(loans, last) # 0
    /\ loans[Selected(loans, last)].collected > 0

\* C26: with collections made by the bulk dialog only, the collections of a
\* loan never sum to more than its loanAmount, and a full bulk collection
\* right after a successful one on the same loan inserts nothing.
C26_BulkNeverOverCollects ==
    [][/\ \A i \in 1..Len(loans') :
             SumPaid(collections', loans'[i].id) <= loans'[i].loanAmount
       /\ (/\ last.op = "addBulkCollection"
           /\ Len(collections) > last.count
           /\ last'.op = "addBulkCollection"
           /\ last'.id = last.id)
             => collections' = collections]_vars

\* C27: in the ledger every opening or manual row's balance is the sum of
\* inflow - outflow over the fund rows up to and including it in the order
\* of the ledger, also when an Initial Balance fund and a manual fund have
\* one date and the manual fund was entered first.
C27_FundRowsRunningBalance ==
    LET ledger == Ledger
        net(i) == IF ledger[i].type \in {"opening", "manual"}
                  THEN ledger[i].inflow - ledger[i].outflow ELSE 0
    IN  \A i \in 1..Len(ledger) :
            ledger[i].type \in {"opening", "manual"}
                => ledger[i].balance = Sum([j \in 1..i |-> net(j)])

\* C28: toggleLoanStatus on an enabled loan takes only its disbursement out
\* of the ledger: the fund and collection rows stay, the collections of the
\* disabled loan included, so the ledger's total inflow is the same and its
\* total outflow is less by the loan's netGiven.
C28_DisableKeepsCollections ==
    [][(/\ last'.op = "toggleLoanStatus"
        /\ \E i \in 1..Len(loans) : loans[i].id = last'.id
        /\ \A i \in 1..Len(loans) : loans[i].id = last'.id => ~loans[i].isDisabled)
          => LET before == Ledger
                 after == transactionHistory(funds', loans', collections')
                 netGiven == Sum([i \in 1..Len(loans) |->
                                    IF loans[i].id = last'.id
                                    THEN loans[i].netGiven ELSE 0])
                 others(ledger) == SelectSeq(Entries(ledger),
                                             LAMBDA r : r.type # "loan")
             IN  /\ totalInflowOf(after) = totalInflowOf(before)
                 /\ totalOutflowOf(after) = totalOutflowOf(before) - netGiven
                 /\ others(after) = others(before)]_vars

\* A loan with two collections right after it was disabled: the ledger still
\* has their inflow.
C28_Witness ==
    LET ledger == Ledger
    IN  /\ last.op = "toggleLoanStatus"
        /\ Len(loans) = 1 /\ loans[1].isDisabled
        /\ Len(collections) = 2
        /\ totalInflowOf(SelectSeq(ledger, LAMBDA r : r.type = "collection"))
              = SumPaid(collections, loans[1].id)
        /\ totalOutflowOf(SelectSeq(ledger, LAMBDA r : r.type = "loan")) = 0

\* Updates objects that carry derived fields, alone or with an input field.
DerivedUpdates ==
    [collected : {7}] \cup [balance : {7}] \cup [status : {"Completed", "Ongoing"}]
        \cup [profit : {7}] \cup [totalToReceive : {7}]
        \cup [loanAmount : {2}, collected : {7}, balance : {0}, status : {"Completed"},
              profit : {7}, totalToReceive : {7}]

\* The five fields calculateLoanMetrics derives.
DerivedFields(loan) ==
    [totalToReceive |-> loan.totalToReceive, collected |-> loan.collected,
     balance |-> loan.balance, status |-> loan.status, profit |-> loan.profit]

\* C29: after updateLoan(id, updates) with any updates object, the loan has
\* its five derived fields derived from its input fields (as updated) and
\* the collections, none taken from updates, and the loans with another id
\* are as they were.
C29_UpdateRederives ==
    \A id \in LoanIds, updates \in DerivedUpdates \cup Updates :
        LET updated == updateLoan(loans, collections, id, updates)
        IN  /\ Len(updated) = Len(loans)
            /\ \A i \in 1..Len(loans) :
                  IF loans[i].id # id THEN updated[i] = loans[i]
                  ELSE LET loanAmount == IF "loanAmount" \in DOMAIN updates
                                         THEN updates.loanAmount
                                         ELSE loans[i].loanAmount
                           collected == SumPaid(collections, id)
                           balance == IF loanAmount > collected
                                      THEN loanAmount - collected ELSE 0
                       IN  DerivedFields(updated[i])
                             = [totalToReceive |-> loanAmount,
                                collected |-> collected,
                                balance |-> balance,
                                status |-> IF loans[i].isDisabled THEN "Disabled"
                                           ELSE IF balance = 0 THEN "Completed"
                                           ELSE "Ongoing",
                                profit |-> loans[i].deduction
                                             + (loanAmount - loans[i].netGiven)]

\* Right after an updateLoan on a stored loan that has a balance left: an
\* update of status to Completed would leave it Ongoing.
C29_Witness ==
    /\ last.op = "updateLoan"
    /\ Selected(loans, last) # 0
    /\ loans[Selected(loans, last)].status = "Ongoing"
    /\ Len(collections) > 0
    /\ updateLoan(loans, collections, last.id, [status |-> "Completed"]) = loans

\* C30: a step that adds a collection of a positive amount (from the daily
\* form or the bulk dialog) lowers no loan's stored collected, raises no
\* loan's stored balance and leaves Completed every loan that is Completed
\* and not disabled.
C30_CompletionStable ==
    [][(/\ last'.op \in {"addCollection", "addBulkCollection", "customCollection"}
        /\ \A k \in 1..Len(collections') : collections'[k].amountPaid > 0)
          => /\ Len(loans') = Len(loans)
             /\ \A i \in 1..Len(loans) :
                   /\ loans'[i].collected >= loans[i].collected
                   /\ loans'[i].balance <= loans[i].balance
                   /\ (loans[i].status = "Completed" /\ ~loans[i].isDisabled)
                         => loans'[i].status = "Completed"]_vars

\* A second collection on a loan whose first collection covered its
\* loanAmount: the loan is stored Completed with collected at least loanAmount.
C30_Witness ==
    /\ last.op = "addCollection"
    /\ last.toast = "Success"
    /\ last.count = 1
    /\ Len(collections) = 2
    /\ Len(loans) = 1
    /\ loans[1].status = "Completed"
    /\ loans[1].collected >= loans[1].loanAmount

====
